---- MODULE Spec2Model ----
(***************************************************************************)
(* Model of src/manager.py: the waiting-list manager.  One run of the      *)
(* script syncs the LIST table with Data\update.csv, fills NULL hours from *)
(* the VATSIM API, initialises NULL three-month check start dates, prints  *)
(* the minimum-hour violators and runs the three-month activity check.     *)
(*                                                                         *)
(* Encoding.  SQL NULL / Python None is the empty tuple <<>>.  An hour     *)
(* figure is <<h>> with h in hundredths of an hour (the code rounds every  *)
(* figure to two decimals, manager.py:97).  A date is <<y, m, d>>, which   *)
(* stands for the text 'YYYY-MM-DD' the code stores and compares.  The     *)
(* text of a join date is <<a, b, c>>, read by strptime as a/b/c with the  *)
(* format '%d/%m/%Y %H:%M:%S'.  A cid is a tuple of characters.            *)
(***************************************************************************)
EXTENDS Integers, Sequences, FiniteSets, TLC

VARIABLES
    store,          \* the committed rows of table LIST
    csv,            \* Data\update.csv as data_sync last read it
    today,          \* datetime.today() as activity_checker last read it
    target_date,    \* target_date as activity_checker last computed it
    pc,             \* the next call of ModuleBody, or "raised" / "closed"
    reread,         \* data_sync last read the file its previous call had read
    to_add,         \* data_sync: the rows of to_add it last printed
    to_remove,      \* data_sync: the cids of to_remove it last printed
    violating_cids, \* minimum_hours_checker: the cids it last printed
    active,         \* activity_checker: the active cids it last printed
    inactive,       \* activity_checker: the inactive cids it last printed
    fetched,        \* cid -> what the API answered in the last fetching pass
    carried,        \* history: the cids the previous activity pass printed as
                    \* inactive whose rows this pass found with the same
                    \* check start date
    log,            \* the requests and time.sleep calls of this run, in order
    call,           \* a call of get_pilot_hours / get_atc_hours taken alone:
                    \* its arguments, the API response and what it returned
    trace           \* the calls of this run that returned, in order

vars == <<store, csv, today, target_date, pc, reread, to_add, to_remove, violating_cids,
          active, inactive, fetched, carried, log, call, trace>>

NULL == <<>>

(***************************************************************************)
(* Bounds of the model.                                                    *)
(***************************************************************************)
MaxRoster == 2      \* rows of update.csv
MaxMonths == 3      \* calendar months the runs span after the first one
MaxItems == 2       \* sessions in the body of one API response
MaxTick == 2        \* half hours the session and window instants span

\* the rows update.csv may hold: member 1 written with and without a
\* leading blank, member 2 with a good and with an impossible join date
RosterEntryList ==
    << [cid |-> <<"1">>, join_date |-> <<15, 8, 2023>>],
       [cid |-> <<" ", "1">>, join_date |-> <<15, 8, 2023>>],
       [cid |-> <<"2">>, join_date |-> <<15, 8, 2023>>],
       [cid |-> <<"2">>, join_date |-> <<31, 2, 2023>>] >>
FirstRunMonth == <<2023, 12>>
RunDays == {17}
PilotHourValues == {0, 1500, 2500}
AtcHourValues == {0, 600}

(***************************************************************************)
(* Calendar arithmetic of datetime / timedelta.                            *)
(***************************************************************************)
IsLeap(y) == (y % 4 = 0 /\ y % 100 # 0) \/ y % 400 = 0

DaysInMonth(y, m) ==
    IF m = 2 THEN (IF IsLeap(y) THEN 29 ELSE 28)
    ELSE IF m \in {4, 6, 9, 11} THEN 30 ELSE 31

RECURSIVE Normalise(_, _, _)
Normalise(y, m, d) ==
    IF d <= DaysInMonth(y, m) THEN <<y, m, d>>
    ELSE IF m = 12 THEN Normalise(y + 1, 1, d - DaysInMonth(y, m))
    ELSE Normalise(y, m + 1, d - DaysInMonth(y, m))

\* date + timedelta(days=n), n >= 0
AddDays(date, n) == Normalise(date[1], date[2], date[3] + n)

\* date.replace(day=1)
ReplaceDay1(date) == <<date[1], date[2], 1>>

DateLT(a, b) ==
    \/ a[1] < b[1]
    \/ a[1] = b[1] /\ a[2] < b[2]
    \/ a[1] = b[1] /\ a[2] = b[2] /\ a[3] < b[3]

\* datetime.strptime(text, '%d/%m/%Y %H:%M:%S'): raises on None (TypeError)
\* and on a text that is no day/month/year of the calendar (ValueError)
StrptimeOk(text) ==
    /\ text # NULL
    /\ text[2] \in 1..12
    /\ text[3] \in 1..9999
    /\ text[1] \in 1..DaysInMonth(text[3], text[2])

Strptime(text) == <<text[3], text[2], text[1]>>

\* (join_date.replace(day=1) + timedelta(days=32)).replace(day=1)
FirstOfNextMonthFromJoinDay(join_date) == ReplaceDay1(AddDays(join_date, 32))
FirstOfNextMonth(join_date) == ReplaceDay1(AddDays(ReplaceDay1(join_date), 32))

\* target_date of activity_checker
TargetDateOpenBound(t) ==
    LET target_month == t[2] - 3
    IN  IF target_month < 0 THEN <<t[1] - 1, target_month + 12, 1>>
        ELSE <<t[1], target_month, 1>>
TargetDateSameYear(t) ==
    LET target_month == t[2] - 3
    IN  IF target_month <= 0 THEN <<t[1], target_month + 12, 1>>
        ELSE <<t[1], target_month, 1>>
TargetDate(t) ==
    LET target_month == t[2] - 3
    IN  IF target_month <= 0 THEN <<t[1] - 1, target_month + 12, 1>>
        ELSE <<t[1], target_month, 1>>

\* datetime.today().replace(day=1)
FirstOfMonthUnreplaced(t) == t
FirstOfMonth(t) == ReplaceDay1(t)

(***************************************************************************)
(* Text normalisation of data_sync.                                        *)
(***************************************************************************)
RECURSIVE LStrip(_)
LStrip(s) == IF s # <<>> /\ Head(s) = " " THEN LStrip(Tail(s)) ELSE s

RECURSIVE RStrip(_)
RStrip(s) ==
    IF s # <<>> /\ s[Len(s)] = " " THEN RStrip(SubSeq(s, 1, Len(s) - 1)) ELSE s

\* .astype(str).str.strip()
NormaliseCidUnstripped(cid) == cid
NormaliseCid(cid) == RStrip(LStrip(cid))

(***************************************************************************)
(* The environment: update.csv, the clock and the API answers.             *)
(***************************************************************************)
\* the files of at most MaxRoster different rows, in the order of
\* RosterEntryList (data_sync does not depend on the order of the rows)
Rosters ==
    { [i \in 1..Len(ix) |-> RosterEntryList[ix[i]]] :
        ix \in { f \in UNION { [1..n -> 1..Len(RosterEntryList)] : n \in 0..MaxRoster } :
                    \A i, j \in 1..Len(f) : i < j => f[i] < f[j] } }

\* the first day of the k-th month after FirstRunMonth
RECURSIVE MonthAfter(_)
MonthAfter(k) ==
    IF k = 0 THEN <<FirstRunMonth[1], FirstRunMonth[2], 1>>
    ELSE ReplaceDay1(AddDays(MonthAfter(k - 1), 31))

RunDates ==
    { <<MonthAfter(k)[1], MonthAfter(k)[2], d>> : k \in 0..MaxMonths, d \in RunDays }

\* one API answer: the HTTP status is 200 or not, and the hours in the body
Responses(values) ==
    [ok : {TRUE}, hours : values] \cup [ok : {FALSE}, hours : {0}]

(***************************************************************************)
(* The table LIST.                                                         *)
(***************************************************************************)
Cids(rows) == { r.cid : r \in rows }

\* INSERT INTO LIST (...) VALUES (?, ?, NULL, NULL, NULL)
NewRowZeroHours(cid, join_date) ==
    [cid |-> cid, list_join_date |-> join_date, pilot_hours |-> <<0>>,
     atc_hours |-> <<0>>, three_month_check_start_date |-> NULL]
NewRow(cid, join_date) ==
    [cid |-> cid, list_join_date |-> join_date, pilot_hours |-> NULL,
     atc_hours |-> NULL, three_month_check_start_date |-> NULL]

(***************************************************************************)
(* data_sync                                                               *)
(***************************************************************************)
\* new_data with its cid column normalised
NewData(file) ==
    [i \in 1..Len(file) |->
        [cid |-> NormaliseCid(file[i].cid), join_date |-> file[i].join_date]]

\* current_data['cid'], normalised
CurrentData(rows) == { NormaliseCid(r.cid) : r \in rows }

SeqCids(frame) == { frame[i].cid : i \in 1..Len(frame) }

ToAdd(new_data, current) ==
    SelectSeq(new_data, LAMBDA row : row.cid \notin current)

ToRemoveInverted(new_data, current) ==
    { cid \in current : cid \in SeqCids(new_data) }
ToRemove(new_data, current) == { cid \in current : cid \notin SeqCids(new_data) }

\* DELETE FROM LIST WHERE cid = ?   for every cid of to_remove
AfterDeletes(rows, removed) == { r \in rows : r.cid \notin removed }

\* the table has cid as its primary key: an INSERT of a cid the table holds
\* raises sqlite3.IntegrityError
PrimaryKeyViolation(rows, added) ==
    \/ \E i \in 1..Len(added) : added[i].cid \in Cids(rows)
    \/ \E i, j \in 1..Len(added) : i # j /\ added[i].cid = added[j].cid

AfterInserts(rows, added) ==
    rows \cup { NewRow(added[i].cid, added[i].join_date) : i \in 1..Len(added) }

(***************************************************************************)
(* get_hours: the two API calls of one member.                             *)
(***************************************************************************)
\* get_pilot_hours / get_atc_hours: 0 when the status is not 200, else the
\* hours of the sessions in the body that lie inside the window the caller
\* passed (`hours` stands for what PilotTotalSeconds / AtcTotalSeconds below
\* give for the body and that window)
GetPilotHours(response) == IF response.ok THEN response.hours ELSE 0

GetAtcHours(response) == IF response.ok THEN response.hours ELSE 0

Answers == [pilot : Responses(PilotHourValues), atc : Responses(AtcHourValues)]

\* the pair get_hours returns
GetHours(answer) ==
    [pilot_hours |-> GetPilotHours(answer.pilot),
     atc_hours |-> GetAtcHours(answer.atc)]

\* what get_hours does, in order: the history request and its status,
\* time.sleep(7), the atc request and its status
Request(response) == [op |-> "get", ok |-> response.ok]

Sleep == [op |-> "sleep", ok |-> TRUE]

GetHoursEventsPacedOnSuccess(answer) ==
    IF answer.pilot.ok THEN <<Request(answer.pilot), Sleep, Request(answer.atc)>>
    ELSE <<Request(answer.pilot), Request(answer.atc)>>
GetHoursEvents(answer) == <<Request(answer.pilot), Sleep, Request(answer.atc)>>

\* the loop of update_hours over the rows of `cids`: get_hours, the UPDATE,
\* time.sleep(7)
RECURSIVE UpdateHoursEvents(_, _)
UpdateHoursEvents(cids, answers) ==
    IF cids = {} THEN <<>>
    ELSE LET cid == CHOOSE c \in cids : TRUE
         IN  GetHoursEvents(answers[cid]) \o <<Sleep>>
                 \o UpdateHoursEvents(cids \ {cid}, answers)

\* the loop of activity_checker over the rows of `cids`: get_hours, the
\* UPDATE if the member meets the requirements, time.sleep(7)
RECURSIVE ActivityEvents(_, _)
ActivityEvents(cids, answers) ==
    IF cids = {} THEN <<>>
    ELSE LET cid == CHOOSE c \in cids : TRUE
         IN  GetHoursEvents(answers[cid]) \o <<Sleep>>
                 \o ActivityEvents(cids \ {cid}, answers)

(***************************************************************************)
(* get_pilot_hours / get_atc_hours on the sessions of a response body.     *)
(* An instant is a number of seconds; the 'start' or 'end' of a session is *)
(* <<instant>>, or NULL when it is missing or empty.  The hours returned   *)
(* by a call are in hundredths: total_seconds / 3600 hours is               *)
(* total_seconds / 36 hundredths, exact for instants on the half hour.     *)
(***************************************************************************)
Max(a, b) == IF a >= b THEN a ELSE b

Min(a, b) == IF a <= b THEN a ELSE b

\* what one session adds to total_seconds (lines 119-130)
SessionSecondsUnclipped(start, end, start_range, end_range) ==
    IF start = NULL \/ end = NULL THEN 0
    ELSE IF end[1] < start_range \/ start[1] > end_range THEN 0
    ELSE end[1] - start[1]
SessionSeconds(start, end, start_range, end_range) ==
    IF start = NULL \/ end = NULL THEN 0
    ELSE IF end[1] < start_range \/ start[1] > end_range THEN 0
    ELSE Min(end[1], end_range) - Max(start[1], start_range)

\* the loop over data.get('items', []) of get_pilot_hours
RECURSIVE PilotTotalSeconds(_, _, _)
PilotTotalSeconds(items, start_range, end_range) ==
    IF items = <<>> THEN 0
    ELSE LET session == Head(items)
         IN  SessionSeconds(session.start, session.end, start_range, end_range)
                 + PilotTotalSeconds(Tail(items), start_range, end_range)

\* the loop over data.get('items', []) of get_atc_hours
RECURSIVE AtcTotalSeconds(_, _, _)
AtcTotalSeconds(items, start_range, end_range) ==
    IF items = <<>> THEN 0
    ELSE LET conn == Head(items).connection_id
         IN  SessionSeconds(conn.start, conn.end, start_range, end_range)
                 + AtcTotalSeconds(Tail(items), start_range, end_range)

\* the instants of sessions and windows
Instants == { k * 1800 : k \in 0..MaxTick }

\* a session of the history: both instants, or one or both missing
Sessions ==
    { x \in [start : { <<t>> : t \in Instants }, end : { <<t>> : t \in Instants }] :
        x.start[1] <= x.end[1] }
    \cup { [start |-> NULL, end |-> <<1800>>], [start |-> <<1800>>, end |-> NULL],
           [start |-> NULL, end |-> NULL] }

\* a session of the atc history; an item without 'connection_id' reads as one
\* whose connection has no 'start' and no 'end' (the default {} of line 151)
Connections == { [connection_id |-> s] : s \in Sessions }

Bodies(sessions) == UNION { [1..n -> sessions] : n \in 0..MaxItems }

Windows == { w \in [start_range : Instants, end_range : Instants] :
                w.start_range <= w.end_range }

GetPilotHoursCall ==
    /\ pc = "get_pilot_hours"
    /\ call' = [call EXCEPT !.returned =
                    IF ~call.response.ok THEN <<0>>
                    ELSE <<PilotTotalSeconds(call.response.items, call.start_range,
                                             call.end_range) \div 36>>]
    /\ pc' = "closed"
    /\ UNCHANGED <<store, csv, today, target_date, reread, to_add, to_remove,
                   violating_cids, active, inactive, fetched, carried, log, trace>>

GetAtcHoursCall ==
    /\ pc = "get_atc_hours"
    /\ call' = [call EXCEPT !.returned =
                    IF ~call.response.ok THEN <<0>>
                    ELSE <<AtcTotalSeconds(call.response.items, call.start_range,
                                           call.end_range) \div 36>>]
    /\ pc' = "closed"
    /\ UNCHANGED <<store, csv, today, target_date, reread, to_add, to_remove,
                   violating_cids, active, inactive, fetched, carried, log, trace>>

(***************************************************************************)
(* The script: python manager.py                                           *)
(***************************************************************************)
\* update_db() (lines 23-30), then lines 282-283
ModuleBodyActivityFirst ==
    <<"data_sync", "update_null_hours", "update_null_check_start_dates",
      "activity_checker", "minimum_hours_checker">>
ModuleBody ==
    <<"data_sync", "update_null_hours", "update_null_check_start_dates",
      "minimum_hours_checker", "activity_checker">>

RECURSIVE IndexOf(_, _)
IndexOf(name, i) == IF ModuleBody[i] = name THEN i ELSE IndexOf(name, i + 1)

\* the call after `name`, or "closed" after the last one (conn.close())
After(name) ==
    IF IndexOf(name, 1) = Len(ModuleBody) THEN "closed"
    ELSE ModuleBody[IndexOf(name, 1) + 1]

At(name) == pc = name

Returned(name) == /\ pc' = After(name)
                  /\ trace' = Append(trace, name)

\* a new process: lines 1-19
Launch ==
    /\ pc \in {"raised", "closed"}
    /\ pc' = ModuleBody[1]
    /\ trace' = <<>>
    /\ to_add' = <<>>
    /\ to_remove' = {}
    /\ violating_cids' = {}
    /\ fetched' = <<>>
    /\ carried' = {}
    /\ log' = <<>>
    /\ UNCHANGED <<store, csv, today, target_date, reread, active, inactive, call>>

DataSync ==
    /\ At("data_sync")
    /\ \E file \in Rosters :
        LET new_data == NewData(file)
            current == CurrentData(store)
            added == ToAdd(new_data, current)
            removed == ToRemove(new_data, current)
            kept == AfterDeletes(store, removed)
        IN  /\ csv' = file
            /\ reread' = (file = csv)
            /\ IF PrimaryKeyViolation(kept, added)
               THEN /\ pc' = "raised"
                    /\ UNCHANGED <<store, to_add, to_remove, trace>>
               ELSE /\ store' = AfterInserts(kept, added)
                    /\ to_add' = added
                    /\ to_remove' = removed
                    /\ Returned("data_sync")
    /\ UNCHANGED <<today, target_date, violating_cids, active, inactive, fetched,
                   carried, log, call>>

(***************************************************************************)
(* update_null_hours / update_hours                                        *)
(***************************************************************************)
\* SELECT cid FROM LIST WHERE pilot_hours IS NULL OR atc_hours IS NULL
NullHourCids(rows) ==
    { r.cid : r \in { x \in rows : x.pilot_hours = NULL \/ x.atc_hours = NULL } }

\* UPDATE LIST SET pilot_hours = ?, atc_hours = ? WHERE cid = ?
SetHours(r, hours) ==
    [r EXCEPT !.pilot_hours = <<hours.pilot_hours>>,
              !.atc_hours = <<hours.atc_hours>>]

\* update_hours(cid_df), the API answering `answers`
UpdateHours(rows, cids, answers) ==
    { IF r.cid \in cids THEN SetHours(r, GetHours(answers[r.cid])) ELSE r :
        r \in rows }

UpdateNullHours ==
    /\ At("update_null_hours")
    /\ \E answers \in [NullHourCids(store) -> Answers] :
        /\ fetched' = answers
        /\ store' = UpdateHours(store, NullHourCids(store), answers)
        /\ log' = log \o UpdateHoursEvents(NullHourCids(store), answers)
    /\ Returned("update_null_hours")
    /\ UNCHANGED <<csv, today, target_date, reread, to_add, to_remove,
                   violating_cids, active, inactive, carried, call>>

(***************************************************************************)
(* update_null_check_start_dates                                           *)
(***************************************************************************)
\* SELECT cid, list_join_date FROM LIST WHERE three_month_check_start_date IS NULL
NullCheckStartRows(rows) ==
    { r \in rows : r.three_month_check_start_date = NULL }

\* UPDATE LIST SET three_month_check_start_date = ? WHERE cid = ?
SetCheckStart(r) ==
    [r EXCEPT !.three_month_check_start_date =
                  FirstOfNextMonth(Strptime(r.list_join_date))]

UpdateNullCheckStartDates ==
    /\ At("update_null_check_start_dates")
    /\ IF \E r \in NullCheckStartRows(store) : ~StrptimeOk(r.list_join_date)
       THEN \* strptime raises: the script ends before conn.commit()
            /\ pc' = "raised"
            /\ UNCHANGED <<store, trace>>
       ELSE /\ store' = { IF r \in NullCheckStartRows(store)
                          THEN SetCheckStart(r) ELSE r : r \in store }
            /\ Returned("update_null_check_start_dates")
    /\ UNCHANGED <<csv, today, target_date, reread, to_add, to_remove,
                   violating_cids, active, inactive, fetched, carried, log, call>>

(***************************************************************************)
(* minimum_hours_checker                                                   *)
(***************************************************************************)
\* an hour figure of the code, in hundredths
Hours(n) == n * 100

\* SQL comparisons: "U" (unknown) when the column is NULL
SqlEq(column, n) == IF column = NULL THEN "U" ELSE IF column[1] = n THEN "T" ELSE "F"

SqlLt(column, n) == IF column = NULL THEN "U" ELSE IF column[1] < n THEN "T" ELSE "F"

SqlGt(column, n) == IF column = NULL THEN "U" ELSE IF column[1] > n THEN "T" ELSE "F"

SqlAnd(a, b) ==
    IF a = "F" \/ b = "F" THEN "F" ELSE IF a = "T" /\ b = "T" THEN "T" ELSE "U"

SqlOr(a, b) ==
    IF a = "T" \/ b = "T" THEN "T" ELSE IF a = "F" /\ b = "F" THEN "F" ELSE "U"

\* the WHERE clause of the violators query
ViolatesWhereNullAsZero(r) ==
    LET atc == IF r.atc_hours = NULL THEN 0 ELSE r.atc_hours[1]
        pilot == IF r.pilot_hours = NULL THEN 0 ELSE r.pilot_hours[1]
    IN  IF (atc = 0 /\ pilot < Hours(30)) \/ (atc > 0 /\ pilot < Hours(15))
        THEN "T" ELSE "F"
ViolatesWhere(r) ==
    SqlOr(SqlAnd(SqlEq(r.atc_hours, 0), SqlLt(r.pilot_hours, Hours(30))),
          SqlAnd(SqlGt(r.atc_hours, 0), SqlLt(r.pilot_hours, Hours(15))))

\* violators_df['cid'].tolist()
ViolatingCids(rows) == { r.cid : r \in { x \in rows : ViolatesWhere(x) = "T" } }

MinimumHoursChecker ==
    /\ At("minimum_hours_checker")
    /\ violating_cids' = ViolatingCids(store)
    /\ Returned("minimum_hours_checker")
    /\ UNCHANGED <<store, csv, today, target_date, reread, to_add, to_remove,
                   active, inactive, fetched, carried, log, call>>

(***************************************************************************)
(* activity_checker                                                        *)
(***************************************************************************)
\* SELECT cid, pilot_hours FROM LIST WHERE three_month_check_start_date = ?
DueRowsNullMatches(rows, t) ==
    { r \in rows : \/ r.three_month_check_start_date = NULL
                   \/ r.three_month_check_start_date = TargetDate(t) }
DueRowsOverdue(rows, t) ==
    { r \in rows : r.three_month_check_start_date # NULL
                   /\ ~DateLT(TargetDate(t), r.three_month_check_start_date) }
DueRows(rows, t) ==
    { r \in rows : r.three_month_check_start_date # NULL
                   /\ r.three_month_check_start_date = TargetDate(t) }

\* float(pilot_hours) - float(row.iloc[1]) >= 10
MeetsRequirementsStrictly(pilot_hours, stored) == pilot_hours - stored[1] > Hours(10)
MeetsRequirements(pilot_hours, stored) == pilot_hours - stored[1] >= Hours(10)

\* UPDATE LIST SET pilot_hours = ?, atc_hours = ?,
\*                 three_month_check_start_date = ? WHERE cid = ?
SetActive(r, hours, t) ==
    [r EXCEPT !.pilot_hours = <<hours.pilot_hours>>,
              !.atc_hours = <<hours.atc_hours>>,
              !.three_month_check_start_date = FirstOfMonth(t)]

\* the rows of df that get active = True
ActiveRows(due, answers) ==
    { r \in due :
        MeetsRequirements(GetHours(answers[r.cid]).pilot_hours, r.pilot_hours) }

\* t is the clock of this pass, one of `dates`: the reads of lines 231 and 263
\* fall on the same day, and the clock never runs backward from one pass to
\* the next
ActivityCheckerAt(dates) ==
    /\ At("activity_checker")
    /\ \E t \in dates :
        /\ ~DateLT(t, today)
        /\ today' = t
        /\ target_date' = TargetDate(t)
        /\ \E answers \in [Cids(DueRows(store, t)) -> Answers] :
            LET due == DueRows(store, t)
                act == ActiveRows(due, answers)
            IN  /\ fetched' = answers
                /\ store' = { IF r \in act
                              THEN SetActive(r, GetHours(answers[r.cid]), t)
                              ELSE r : r \in store }
                /\ active' = Cids(act)
                /\ inactive' = Cids(due \ act)
                /\ log' = log \o ActivityEvents(Cids(due), answers)
        /\ carried' = { r.cid : r \in { x \in store :
                            /\ x.cid \in inactive
                            /\ x.three_month_check_start_date = TargetDate(today) } }
    /\ Returned("activity_checker")
    /\ UNCHANGED <<csv, reread, to_add, to_remove, violating_cids, call>>

ActivityChecker == ActivityCheckerAt(RunDates)

(***************************************************************************)
(* Specification                                                           *)
(***************************************************************************)
Init ==
    /\ store = {}
    /\ csv = <<>>
    /\ today = MonthAfter(0)
    /\ target_date = NULL
    /\ pc = "closed"
    /\ reread = FALSE
    /\ to_add = <<>>
    /\ to_remove = {}
    /\ violating_cids = {}
    /\ active = {}
    /\ inactive = {}
    /\ fetched = <<>>
    /\ carried = {}
    /\ log = <<>>
    /\ call = NULL
    /\ trace = <<>>

Next ==
    \/ Launch
    \/ DataSync
    \/ UpdateNullHours
    \/ UpdateNullCheckStartDates
    \/ MinimumHoursChecker
    \/ ActivityChecker

Spec == Init /\ [][Next]_vars

(***************************************************************************)
(* The violators query on any table: the rows of two members, each with    *)
(* any hour figures, NULL among them.                                      *)
(***************************************************************************)
QueryHours == { NULL, <<0>>, <<1400>>, <<1500>>, <<2900>>, <<3000>> }

QueryAtcHours == { NULL, <<0>>, <<600>> }

QueryRows(cid) ==
    { [NewRow(cid, <<15, 8, 2023>>) EXCEPT !.pilot_hours = p, !.atc_hours = a] :
        p \in QueryHours, a \in QueryAtcHours }

InitQuery ==
    /\ store \in { {a, b} : a \in QueryRows(<<"1">>), b \in QueryRows(<<"2">>) }
    /\ csv = <<>>
    /\ today = MonthAfter(0)
    /\ target_date = NULL
    /\ pc = "minimum_hours_checker"
    /\ reread = FALSE
    /\ to_add = <<>>
    /\ to_remove = {}
    /\ violating_cids = {}
    /\ active = {}
    /\ inactive = {}
    /\ fetched = <<>>
    /\ carried = {}
    /\ log = <<>>
    /\ call = NULL
    /\ trace = <<>>

NextQuery == MinimumHoursChecker

SpecQuery == InitQuery /\ [][NextQuery]_vars

(***************************************************************************)
(* The activity pass on any table and any day: the rows of two members,    *)
(* each with any check start date, NULL among them, and the clock on the   *)
(* first or the last day of any month of two years.                        *)
(***************************************************************************)
PassYears == {2023, 2024}

PassDates ==
    UNION { { <<y, m, 1>>, <<y, m, DaysInMonth(y, m)>> } :
                y \in PassYears, m \in 1..12 }

PassCheckStarts ==
    {NULL} \cup { <<y, m, 1>> : y \in PassYears \cup {2022}, m \in 1..12 }

PassRows(cid, check_starts) ==
    { [NewRow(cid, <<15, 8, 2022>>) EXCEPT !.pilot_hours = <<1500>>,
                                          !.atc_hours = <<0>>,
                                          !.three_month_check_start_date = c] :
        c \in check_starts }

InitPass ==
    /\ store \in { {a, b} : a \in PassRows(<<"1">>, PassCheckStarts),
                            b \in PassRows(<<"2">>, {NULL, <<2023, 10, 1>>}) }
    /\ csv = <<>>
    /\ today = <<2023, 1, 1>>
    /\ target_date = NULL
    /\ pc = "activity_checker"
    /\ reread = FALSE
    /\ to_add = <<>>
    /\ to_remove = {}
    /\ violating_cids = {}
    /\ active = {}
    /\ inactive = {}
    /\ fetched = <<>>
    /\ carried = {}
    /\ log = <<>>
    /\ call = NULL
    /\ trace = <<>>

NextPass == ActivityCheckerAt(PassDates)

SpecPass == InitPass /\ [][NextPass]_vars

(***************************************************************************)
(* The check start date initialisation on any join date: the row of one    *)
(* member whose list_join_date is any day of a common or of a leap year.   *)
(***************************************************************************)
JoinYears == {2023, 2024}

JoinTexts ==
    UNION { { <<d, m, y>> : d \in 1..DaysInMonth(y, m) } :
                y \in JoinYears, m \in 1..12 }

InitJoin ==
    /\ store \in { {NewRow(<<"1">>, text)} : text \in JoinTexts }
    /\ csv = <<>>
    /\ today = MonthAfter(0)
    /\ target_date = NULL
    /\ pc = "update_null_check_start_dates"
    /\ reread = FALSE
    /\ to_add = <<>>
    /\ to_remove = {}
    /\ violating_cids = {}
    /\ active = {}
    /\ inactive = {}
    /\ fetched = <<>>
    /\ carried = {}
    /\ log = <<>>
    /\ call = NULL
    /\ trace = <<>>

NextJoin == UpdateNullCheckStartDates

SpecJoin == InitJoin /\ [][NextJoin]_vars

(***************************************************************************)
(* One call of get_pilot_hours or get_atc_hours on any window and any      *)
(* response body of at most MaxItems sessions.                             *)
(***************************************************************************)
Calls(fn, sessions) ==
    { [fn |-> fn, start_range |-> w.start_range, end_range |-> w.end_range,
       response |-> [ok |-> TRUE, items |-> items], returned |-> NULL] :
        w \in Windows, items \in Bodies(sessions) }
    \cup
    { [fn |-> fn, start_range |-> w.start_range, end_range |-> w.end_range,
       response |-> [ok |-> FALSE, items |-> <<>>], returned |-> NULL] :
        w \in Windows }

InitSessions ==
    /\ call \in Calls("get_pilot_hours", Sessions)
                 \cup Calls("get_atc_hours", Connections)
    /\ pc = call.fn
    /\ store = {}
    /\ csv = <<>>
    /\ today = MonthAfter(0)
    /\ target_date = NULL
    /\ reread = FALSE
    /\ to_add = <<>>
    /\ to_remove = {}
    /\ violating_cids = {}
    /\ active = {}
    /\ inactive = {}
    /\ fetched = <<>>
    /\ carried = {}
    /\ log = <<>>
    /\ trace = <<>>

NextSessions == GetPilotHoursCall \/ GetAtcHoursCall

SpecSessions == InitSessions /\ [][NextSessions]_vars

(***************************************************************************)
(* Vocabulary of the properties.                                           *)
(***************************************************************************)
\* the step in which the call `name` runs (it returns or raises)
StepOf(name) == pc = name /\ pc' # name

\* the step in which the call `name` runs and returns
ReturnOf(name) == pc = name /\ trace' = Append(trace, name)

\* day 1 of the month n months before the month of t
MonthsBefore(t, n) ==
    LET months == t[1] * 12 + (t[2] - 1) - n
    IN  <<months \div 12, (months % 12) + 1, 1>>

IsDue(r, t) == r.three_month_check_start_date = MonthsBefore(t, 3)

SameCid(r, rows) == { x \in rows : x.cid = r.cid }

IsFirstOfMonth(date) == Len(date) = 3 /\ date[3] = 1 /\ date[2] \in 1..12

FetchFailed(answer) == ~answer.pilot.ok \/ ~answer.atc.ok

(***************************************************************************)
(* C1.  For a Due member activity_checker computes delta = fetched pilot   *)
(* hours - stored pilot_hours.  If delta >= 10 it overwrites pilot_hours   *)
(* and atc_hours with the fetched values and sets the check start date to  *)
(* the first day of today's month; if delta < 10 the member's row is left  *)
(* as it was.                                                              *)
(***************************************************************************)
C1_ActivityWindow ==
    [][ReturnOf("activity_checker") =>
        \A r \in store : IsDue(r, today') =>
            LET got == GetHours(fetched'[r.cid])
                delta == got.pilot_hours - r.pilot_hours[1]
            IN  IF delta >= 1000
                THEN SameCid(r, store') =
                        { [r EXCEPT !.pilot_hours = <<got.pilot_hours>>,
                                    !.atc_hours = <<got.atc_hours>>,
                                    !.three_month_check_start_date =
                                        <<today'[1], today'[2], 1>>] }
                ELSE SameCid(r, store') = {r}]_vars

\* a run in which one Due member passed with a delta of exactly 10 hours and
\* another Due member failed
C1_Witness ==
    /\ pc = "closed"
    /\ inactive # {}
    /\ \E r \in store :
        /\ r.cid \in active
        /\ r.three_month_check_start_date = <<today[1], today[2], 1>>
        /\ r.pilot_hours = <<2500>>
        /\ fetched[r.cid].pilot = [ok |-> TRUE, hours |-> 2500]

(***************************************************************************)
(* C2.  When the hours fetch of a member fails (a status other than 200),  *)
(* the member is skipped: its stored pilot_hours, atc_hours and check      *)
(* start date stay as they were, and no zero is written in place of the    *)
(* missing figure, in the gap-fill pass and in the activity pass.          *)
(***************************************************************************)
C2_FailedFetchSkipsMember ==
    [][StepOf("update_null_hours") \/ StepOf("activity_checker") =>
        \A r \in store :
            (r.cid \in DOMAIN fetched' /\ FetchFailed(fetched'[r.cid])) =>
                \A x \in SameCid(r, store') :
                    /\ x.pilot_hours = r.pilot_hours
                    /\ x.atc_hours = r.atc_hours
                    /\ x.three_month_check_start_date =
                           r.three_month_check_start_date]_vars

(***************************************************************************)
(* C3.  As claimed: a member that fails the activity window (its check     *)
(* start date unchanged) is Due again on every later run, in whatever      *)
(* later calendar month the run takes place.                               *)
(***************************************************************************)
\* rows the previous activity pass reported inactive and that still carry the
\* check start date that pass evaluated
FailedBefore ==
    { r \in store : r.cid \in inactive /\ IsDue(r, today) }

Trimmed(s) ==
    LET solid == { i \in 1..Len(s) : s[i] # " " }
    IN  IF solid = {} THEN <<>>
        ELSE SubSeq(s, CHOOSE i \in solid : \A j \in solid : i <= j,
                       CHOOSE i \in solid : \A j \in solid : j <= i)

RosterCids(file) == { Trimmed(file[i].cid) : i \in 1..Len(file) }

C4_SyncMatchesRoster ==
    [][ReturnOf("data_sync") =>
        /\ Cids(store') = RosterCids(csv')
        /\ Cids(store' \ store) = RosterCids(csv') \ Cids(store)
        /\ Cids(store \ store') = Cids(store) \ RosterCids(csv')
        /\ \A r \in store : r.cid \in RosterCids(csv') => r \in store']_vars

\* a sync that inserted one member and deleted another, reading a file that
\* writes a cid with a leading blank
C4_Witness ==
    /\ trace = <<"data_sync">>
    /\ Len(to_add) > 0
    /\ to_remove # {}
    /\ \E i \in 1..Len(csv) : csv[i].cid # Trimmed(csv[i].cid)

(***************************************************************************)
(* C5.  Reconciliation is idempotent: a data_sync that reads the file the  *)
(* previous data_sync read finds nothing to add and nothing to remove, and *)
(* does not change the table.                                              *)
(***************************************************************************)
C5_SyncIdempotent ==
    [][(ReturnOf("data_sync") /\ csv' = csv) =>
        /\ to_add' = <<>>
        /\ to_remove' = {}
        /\ store' = store]_vars

\* a second sync of the same non-empty file has returned
C5_Witness ==
    /\ trace = <<"data_sync">>
    /\ reread
    /\ csv # <<>>
    /\ store # {}

(***************************************************************************)
(* C6.  A check start date is always NULL or a first-of-month date, and    *)
(* once it is set every later change of it replaces it with a strictly     *)
(* later first-of-month date: it never moves backward and never becomes    *)
(* NULL again.                                                             *)
(***************************************************************************)
C6_CheckStartOnlyAdvances ==
    /\ [](\A r \in store :
            \/ r.three_month_check_start_date = NULL
            \/ IsFirstOfMonth(r.three_month_check_start_date))
    /\ [][\A r \in store : r.three_month_check_start_date # NULL =>
            \A x \in SameCid(r, store') :
                /\ x.three_month_check_start_date # NULL
                /\ \/ x.three_month_check_start_date = r.three_month_check_start_date
                   \/ DateLT(r.three_month_check_start_date,
                             x.three_month_check_start_date)]_vars

\* the activity pass has moved a check start date that the initialisation
\* pass had set
C6_Witness ==
    /\ pc = "closed"
    /\ \E r \in store :
        /\ r.cid \in active
        /\ DateLT(FirstOfNextMonth(Strptime(r.list_join_date)),
                  r.three_month_check_start_date)

HasHours(r) == r.pilot_hours # NULL /\ r.atc_hours # NULL

BelowMinimum(r) ==
    \/ r.atc_hours[1] = 0 /\ r.pilot_hours[1] < 3000
    \/ r.atc_hours[1] > 0 /\ r.pilot_hours[1] < 1500

C8_ViolatorsExact ==
    [][ReturnOf("minimum_hours_checker") =>
        /\ violating_cids' = { r.cid : r \in { x \in store : HasHours(x) /\ BelowMinimum(x) } }
        /\ store' = store]_vars

\* the check has run on a table that holds a violator beside a member whose
\* pilot_hours is NULL and whose atc_hours is 0, and has printed only the first
C8_Witness ==
    /\ trace = <<"minimum_hours_checker">>
    /\ violating_cids # {}
    /\ \E r \in store :
        /\ r.pilot_hours = NULL
        /\ r.atc_hours = <<0>>
        /\ r.cid \notin violating_cids

(***************************************************************************)
(* C9.  In the activity pass a member whose hours fetch fails is reported  *)
(* neither as active nor as inactive: the members reported inactive are    *)
(* only members whose hours were fetched successfully and whose delta was  *)
(* below 10.                                                               *)
(***************************************************************************)
C9_FailedFetchNotReported ==
    [][ReturnOf("activity_checker") =>
        /\ \A cid \in DOMAIN fetched' :
            FetchFailed(fetched'[cid]) => cid \notin active' \cup inactive'
        /\ \A r \in store : r.cid \in inactive' =>
            /\ ~FetchFailed(fetched'[r.cid])
            /\ fetched'[r.cid].pilot.hours - r.pilot_hours[1] < 1000]_vars

(***************************************************************************)
(* C10.  In the check start date initialisation pass a member whose        *)
(* list_join_date is malformed or missing is skipped (its check start date *)
(* stays NULL), while every other member with a NULL check start date and  *)
(* a well-formed join date has its check start date set and persisted in   *)
(* that same pass.                                                         *)
(***************************************************************************)
WellFormed(text) ==
    /\ Len(text) = 3
    /\ text[2] \in 1..12
    /\ text[1] >= 1
    /\ text[1] <= DaysInMonth(text[3], text[2])

C10_MalformedJoinDateSkipped ==
    [][StepOf("update_null_check_start_dates") =>
        \A r \in store : r.three_month_check_start_date = NULL =>
            \A x \in SameCid(r, store') :
                IF WellFormed(r.list_join_date)
                THEN IsFirstOfMonth(x.three_month_check_start_date)
                ELSE x = r]_vars

(***************************************************************************)
(* C11.  A Due member who accrued at least 10 pilot hours inside the       *)
(* evaluation window [check start date, last second of the previous month] *)
(* is made Active, whatever total its pilot_hours column holds.  The       *)
(* figure activity_checker fetches is the hours inside that window (line   *)
(* 258 passes the window to get_hours).                                    *)
(***************************************************************************)
C11_WindowHoursMakeActive ==
    [][ReturnOf("activity_checker") =>
        \A r \in store :
            (/\ IsDue(r, today')
             /\ fetched'[r.cid].pilot.ok
             /\ fetched'[r.cid].pilot.hours >= 1000) =>
                r.cid \in active']_vars

(***************************************************************************)
(* C12.  After a member is made Active by a run in calendar month M (its   *)
(* check start date becomes day 1 of M), the runs that take place in month *)
(* M+1 and M+2 do not evaluate it, and a run that takes place in month M+3 *)
(* does, across the turn of the year as well.                              *)
(***************************************************************************)
\* the calendar months from date a to date b
MonthsBetween(a, b) == (b[1] * 12 + b[2]) - (a[1] * 12 + a[2])

\* rows the previous activity pass made Active and that still carry the check
\* start date that pass wrote
ActiveBefore ==
    { r \in store : /\ r.cid \in active
                    /\ r.three_month_check_start_date = <<today[1], today[2], 1>> }

C12_DueThreeMonthsAfterActive ==
    [][ReturnOf("activity_checker") =>
        \A r \in ActiveBefore :
            /\ MonthsBetween(today, today') \in {1, 2} =>
                   r.cid \notin active' \cup inactive' /\ r \in store'
            /\ MonthsBetween(today, today') = 3 =>
                   r.cid \in active' \cup inactive']_vars

\* a run of the year after has evaluated a member whose check start date an
\* Active transition of three calendar months before had written
C12_Witness ==
    /\ pc = "closed"
    /\ \E r \in store :
        /\ r.cid \in inactive
        /\ DateLT(FirstOfNextMonth(Strptime(r.list_join_date)),
                  r.three_month_check_start_date)
        /\ MonthsBetween(r.three_month_check_start_date, today) = 3
        /\ r.three_month_check_start_date[1] < today[1]

(***************************************************************************)
(* C13.  Between any two consecutive requests of one run there is at least *)
(* one time.sleep: between the two requests of a member, between the last  *)
(* request of a member and the first of the next, and between the last     *)
(* request of the gap-fill pass and the first of the activity pass,        *)
(* whether the earlier request succeeded or failed.                        *)
(***************************************************************************)
C13_SleepBetweenRequests ==
    \A i \in 1..(Len(log) - 1) : log[i].op = "get" => log[i + 1].op = "sleep"

\* a finished run that fetched in the gap-fill pass and in the activity pass,
\* one of its requests having failed with another request after it
C13_Witness ==
    /\ pc = "closed"
    /\ Len(to_add) > 0
    /\ active \cup inactive # {}
    /\ Len(log) = 4 * (Len(to_add) + Cardinality(active \cup inactive))
    /\ \E i \in 1..(Len(log) - 2) :
        /\ log[i].op = "get"
        /\ ~log[i].ok
        /\ log[i + 2].op = "get"

(***************************************************************************)
(* C14.  Every member data_sync inserts has pilot_hours, atc_hours and     *)
(* check start date all NULL and its list_join_date equal to the join_date *)
(* of its roster entry; this holds as well for a cid that an earlier sync  *)
(* had removed and that the roster lists again.                            *)
(***************************************************************************)
C14_InsertedAsNewcomer ==
    [][ReturnOf("data_sync") =>
        \A r \in store' : r.cid \notin Cids(store) =>
            /\ r.pilot_hours = NULL
            /\ r.atc_hours = NULL
            /\ r.three_month_check_start_date = NULL
            /\ \E i \in 1..Len(csv') :
                /\ Trimmed(csv'[i].cid) = r.cid
                /\ csv'[i].join_date = r.list_join_date]_vars

\* a sync has inserted, with no hours and no check start date, a cid that an
\* activity pass of an earlier run had evaluated
C14_Witness ==
    /\ trace = <<"data_sync">>
    /\ \E i \in 1..Len(to_add) : to_add[i].cid \in active \cup inactive
    /\ \E r \in store :
        /\ r.cid \in active \cup inactive
        /\ r.pilot_hours = NULL
        /\ r.three_month_check_start_date = NULL

(***************************************************************************)
(* C15.  The activity pass leaves every member that is not Due (its check  *)
(* start date NULL or different from the target date) exactly as it was,   *)
(* and requests no hours for it.                                           *)
(***************************************************************************)
C15_NotDueUntouched ==
    [][ReturnOf("activity_checker") =>
        /\ \A r \in store : ~IsDue(r, today') =>
            /\ r \in store'
            /\ r.cid \notin DOMAIN fetched'
        /\ Len(log') - Len(log) =
               4 * Cardinality({ r \in store : IsDue(r, today') })]_vars

\* a pass has made one member Active and has left alone, with no request, a
\* member whose check start date is NULL
C15_Witness ==
    /\ pc = "closed"
    /\ active # {}
    /\ \E r \in store :
        /\ r.three_month_check_start_date = NULL
        /\ r.cid \notin DOMAIN fetched
        /\ r.pilot_hours = <<1500>>

(***************************************************************************)
(* C17.  For every run date the target date is day 1 of the month exactly  *)
(* three calendar months before the month of the run, its year one less    *)
(* than the year of the run exactly when the run month is January,         *)
(* February or March, and its month always in 1..12; the members the pass  *)
(* evaluates are those whose check start date is that day.                 *)
(***************************************************************************)
C17_TargetThreeMonthsBack ==
    [][ReturnOf("activity_checker") =>
        LET run == today'
            early == run[2] \in {1, 2, 3}
            expected == <<IF early THEN run[1] - 1 ELSE run[1],
                          IF early THEN run[2] + 9 ELSE run[2] - 3,
                          1>>
        IN  /\ target_date' = expected
            /\ target_date'[2] \in 1..12
            /\ MonthsBetween(target_date', run) = 3
            /\ active' \cup inactive' =
                   { r.cid : r \in { x \in store :
                        x.three_month_check_start_date = expected } }]_vars

\* a pass run in March has evaluated a member whose check start date is the
\* first of December of the year before
C17_Witness ==
    /\ pc = "closed"
    /\ today[2] = 3
    /\ target_date = <<today[1] - 1, 12, 1>>
    /\ \E r \in store :
        /\ r.cid \in inactive
        /\ r.three_month_check_start_date = target_date

(***************************************************************************)
(* C16.  For every valid join date (any day of a month of 28, 29, 30 or 31 *)
(* days, in a leap or a common year) the initialisation pass sets the      *)
(* check start date to day 1 of the calendar month after the month of the  *)
(* join date, which for a December join date is 1 January of the next      *)
(* year, and changes nothing else of the row.                              *)
(***************************************************************************)
C16_FirstOfFollowingMonth ==
    [][ReturnOf("update_null_check_start_dates") =>
        \A r \in store : r.three_month_check_start_date = NULL =>
            LET day == r.list_join_date[1]
                month == r.list_join_date[2]
                year == r.list_join_date[3]
                following == IF month = 12 THEN <<year + 1, 1, 1>>
                             ELSE <<year, month + 1, 1>>
            IN  SameCid(r, store') =
                    { [r EXCEPT !.three_month_check_start_date = following] }]_vars

\* the pass has given a member that joined on 31 December 2023 the check start
\* date 1 January 2024
C16_Witness ==
    /\ trace = <<"update_null_check_start_dates">>
    /\ \E r \in store :
        /\ r.list_join_date = <<31, 12, 2023>>
        /\ r.three_month_check_start_date = <<2024, 1, 1>>

(***************************************************************************)
(* C18.  For any window and any sessions with start <= end, the duration   *)
(* get_pilot_hours and get_atc_hours accumulate is the sum over the        *)
(* sessions of the length of the part of the session that lies inside the  *)
(* window: the whole session when it is inside, nothing when it is         *)
(* outside, the part in common when it overlaps; a session whose start or  *)
(* end is missing adds nothing and raises no error.                        *)
(***************************************************************************)
\* the session of an item as the function `fn` reads it
SessionOf(fn, item) == IF fn = "get_atc_hours" THEN item.connection_id ELSE item

\* the half hours that lie both in the session and in the window
HalfHoursInside(session, start_range, end_range) ==
    IF session.start = NULL \/ session.end = NULL THEN {}
    ELSE { k \in 0..(MaxTick - 1) :
            /\ session.start[1] <= k * 1800
            /\ (k + 1) * 1800 <= session.end[1]
            /\ start_range <= k * 1800
            /\ (k + 1) * 1800 <= end_range }

RECURSIVE HundredthsInside(_, _, _, _)
HundredthsInside(fn, items, start_range, end_range) ==
    IF items = <<>> THEN 0
    ELSE 50 * Cardinality(HalfHoursInside(SessionOf(fn, Head(items)),
                                          start_range, end_range))
         + HundredthsInside(fn, Tail(items), start_range, end_range)

C18_SumOfIntersections ==
    [][(pc \in {"get_pilot_hours", "get_atc_hours"} /\ call.response.ok) =>
        /\ pc' = "closed"
        /\ call'.returned =
               <<HundredthsInside(call.fn, call.response.items,
                                  call.start_range, call.end_range)>>]_vars

\* get_pilot_hours has returned half an hour for a body of two sessions: one
\* that starts before the window and ends with it, and one without an end
C18_Witness ==
    /\ pc = "closed"
    /\ call.fn = "get_pilot_hours"
    /\ call.returned = <<50>>
    /\ Len(call.response.items) = 2
    /\ \E i, j \in 1..2 :
        /\ call.response.items[i].end = NULL
        /\ call.response.items[j].start = <<0>>
        /\ call.response.items[j].end = <<3600>>
        /\ call.start_range = 1800
        /\ call.end_range = 3600

(***************************************************************************)
(* C19.  Every member that stays on the roster is eventually evaluated:    *)
(* with at least one run in every calendar month, a member whose check     *)
(* start date was initialised from its list_join_date, however many months *)
(* before the run that first added it the join date lies, is Due in some   *)
(* later run.  The target date of a later run is never earlier than the    *)
(* target date of this run, and Due is equality with the target date, so   *)
(* the claim requires that a member this run has added and not evaluated   *)
(* has a check start date that is not earlier than the target date of this *)
(* run.                                                                    *)
(***************************************************************************)
C19_AddedMemberStillToBeDue ==
    [][(ReturnOf("activity_checker") /\ MonthsBetween(today, today') <= 1) =>
        \A r \in store' :
            (/\ r.cid \in SeqCids(to_add)
             /\ r.cid \notin active' \cup inactive') =>
                ~DateLT(r.three_month_check_start_date, target_date')]_vars

(***************************************************************************)
(* C20.  An Active transition never turns a member that met the minimum    *)
(* hours into a violator: if the pilot_hours and atc_hours a row held      *)
(* before activity_checker overwrote them pass the compliance test, the    *)
(* values it wrote pass it too.                                            *)
(***************************************************************************)
C20_ActiveKeepsCompliance ==
    [][ReturnOf("activity_checker") =>
        \A r \in store :
            (r.cid \in active' /\ HasHours(r) /\ ~BelowMinimum(r)) =>
                \A x \in SameCid(r, store') : ~BelowMinimum(x)]_vars

====
